---- MODULE Spec2Model ----
(***************************************************************************)
(* Model of server.js: an Express service that uploads files to a blob     *)
(* container, lists them in a gallery, resolves the storage credential on  *)
(* every request and keeps a feature-flag snapshot refreshed from a remote *)
(* configuration store.                                                    *)
(*                                                                         *)
(* Strings the code inspects character by character (file names, blob      *)
(* names) are sequences of one-character strings.  Configuration keys are  *)
(* sequences of tokens in which "/" is a token of its own.  JavaScript     *)
(* values are written as their source text ("true", "undefined", ...).     *)
(***************************************************************************)
EXTENDS Integers, Sequences, FiniteSets, TLC

VARIABLES
  storageAccountKey,  \* process.env.STORAGE_ACCOUNT_KEY
  keyVaultUrl,        \* process.env.KEY_VAULT_URL
  appConfigClient,    \* "null" or "client"
  featureFlags,       \* the process-wide flag snapshot
  cyc,                \* the activations of refreshFeatureFlags
  req,                \* the HTTP requests being handled
  blobs,              \* the objects of the container
  containerExists,    \* whether the container exists
  now,                \* the value Date.now() returns
  sIn, sOut, sAgain, sPhase  \* the sanitizer applied to one name, then again

vars == <<storageAccountKey, keyVaultUrl, appConfigClient, featureFlags, cyc,
          req, blobs, containerExists, now, sIn, sOut, sAgain, sPhase>>

----------------------------------------------------------------------------
(* Bounds *)

\* longest file name drawn from Alphabet
MaxLen == 4
\* number of HTTP requests of one behaviour
NReq == 2

----------------------------------------------------------------------------
(* Characters *)

Lower == {"a","b","c","d","e","f","g","h","i","j","k","l","m",
          "n","o","p","q","r","s","t","u","v","w","x","y","z"}
Upper == {"A","B","C","D","E","F","G","H","I","J","K","L","M",
          "N","O","P","Q","R","S","T","U","V","W","X","Y","Z"}
Digit == {"0","1","2","3","4","5","6","7","8","9"}

\* the class [a-zA-Z0-9.-] of the first replace
AllowedChars == Lower \cup Upper \cup Digit \cup {".", "-"}

\* the class \s of the second replace (the members the model uses)
Whitespace == {" ", "\t", "\n"}

\* one character of each kind the sanitizer distinguishes
Alphabet == {"a", "-", ".", "_", " ", "("}

----------------------------------------------------------------------------
(* The filename sanitizer: four chained String.prototype.replace calls *)

\* .replace(/[^a-zA-Z0-9.-]/g, '_')
ReplaceInvalid(s) ==
  [i \in 1..Len(s) |-> IF s[i] \in AllowedChars THEN s[i] ELSE "_"]

\* every maximal run of characters of set cls replaced by the string by
RECURSIVE ReplaceRuns(_, _, _, _)
ReplaceRuns(s, cls, minRun, by) ==
  IF s = <<>> THEN <<>>
  ELSE IF Head(s) \notin cls THEN <<Head(s)>> \o ReplaceRuns(Tail(s), cls, minRun, by)
  ELSE LET n == CHOOSE k \in 1..Len(s) :
                  /\ \A i \in 1..k : s[i] \in cls
                  /\ (k = Len(s) \/ s[k + 1] \notin cls)
           rest == SubSeq(s, n + 1, Len(s))
       IN  IF n >= minRun
           THEN by \o ReplaceRuns(rest, cls, minRun, by)
           ELSE SubSeq(s, 1, n) \o ReplaceRuns(rest, cls, minRun, by)

\* .replace(/\s+/g, '_')
ReplaceSpaces(s) == ReplaceRuns(s, Whitespace, 1, <<"_">>)

\* the third replace left out
CollapseUnderscoresOff(s) == s

\* .replace(/_{2,}/g, '_')
CollapseUnderscores(s) == ReplaceRuns(s, {"_"}, 2, <<"_">>)

\* .replace(/^_+|_+$/g, '')
RECURSIVE StripLeading(_)
StripLeading(s) ==
  IF s # <<>> /\ Head(s) = "_" THEN StripLeading(Tail(s)) ELSE s

RECURSIVE StripTrailing(_)
StripTrailing(s) ==
  IF s # <<>> /\ s[Len(s)] = "_" THEN StripTrailing(SubSeq(s, 1, Len(s) - 1)) ELSE s

\* only ^_+ of the alternation
TrimLeadingOnly(s) == StripLeading(s)

TrimUnderscores(s) == StripTrailing(StripLeading(s))

safeFilename(originalname) ==
  TrimUnderscores(CollapseUnderscores(ReplaceSpaces(ReplaceInvalid(originalname))))

----------------------------------------------------------------------------
(* JavaScript values and objects *)

\* ToBoolean, as applied by if (...) and by !!
Truthy(v) == v \notin {"undefined", "null", "false", "", "0"}

\* the object literal { }
EmptyObject == [n \in {} |-> "undefined"]

\* obj[name] = v
SetProp(obj, name, v) ==
  [n \in DOMAIN obj \cup {name} |-> IF n = name THEN v ELSE obj[n]]

\* obj[name]; a missing property reads as undefined
GetProp(obj, name) == IF name \in DOMAIN obj THEN obj[name] ELSE "undefined"

\* Number to String, for a non-negative integer
DigitChars == <<"0","1","2","3","4","5","6","7","8","9">>

RECURSIVE NumberToString(_)
NumberToString(n) ==
  IF n < 10 THEN <<DigitChars[n + 1]>>
  ELSE NumberToString(n \div 10) \o <<DigitChars[(n % 10) + 1]>>

----------------------------------------------------------------------------
(* Configuration settings of the remote store *)

FlagPrefix == ".appconfig.featureflag"

\* JSON.parse on the setting values the model serves:
\* ok = FALSE is a SyntaxError; kind is "object" or "null"
JSONParse(text) ==
  CASE text = "{\"enabled\":true}"  -> [ok |-> TRUE, kind |-> "object",
                                         props |-> [enabled |-> "true"]]
    [] text = "{\"enabled\":false}" -> [ok |-> TRUE, kind |-> "object",
                                         props |-> [enabled |-> "false"]]
    [] text = "{}"                  -> [ok |-> TRUE, kind |-> "object", props |-> EmptyObject]
    [] text = "null"                -> [ok |-> TRUE, kind |-> "null", props |-> EmptyObject]
    [] OTHER                        -> [ok |-> FALSE, kind |-> "error", props |-> EmptyObject]

\* key.split('/'): the tokens between the "/" tokens
RECURSIVE SplitSlash(_)
SplitSlash(key) ==
  IF \A i \in 1..Len(key) : key[i] # "/"
  THEN <<(IF key = <<>> THEN "" ELSE key[1])>>
  ELSE LET p == CHOOSE i \in 1..Len(key) :
                  key[i] = "/" /\ \A j \in 1..(i - 1) : key[j] # "/"
       IN  <<(IF p = 1 THEN "" ELSE key[1])>> \o SplitSlash(SubSeq(key, p + 1, Len(key)))

\* setting.key.split('/')[1]; a missing element is undefined, and as a
\* property name undefined is the string "undefined"
FlagName(key) ==
  LET parts == SplitSlash(key) IN IF Len(parts) >= 2 THEN parts[2] ELSE "undefined"

Setting(key, value) == [key |-> key, value |-> value]

\* the settings a listing can yield
Settings ==
  { Setting(<<FlagPrefix, "/", "enableGallery">>, "{\"enabled\":true}"),
    Setting(<<FlagPrefix, "/", "enableGallery">>, "{\"enabled\":false}"),
    Setting(<<FlagPrefix, "/", "beta">>, "not json"),
    Setting(<<FlagPrefix, "/", "beta">>, "{}"),
    Setting(<<FlagPrefix, "/", "enableGallery", "/", "v2">>, "{\"enabled\":true}") }

----------------------------------------------------------------------------
(* Requests, blobs and the clock *)

Requests == 1..NReq

\* the values Date.now() takes, in increasing order
ClockValues == {1, 12}

\* req.file.originalname of the uploads
FileNames ==
  { <<"a", " ", "b", ".", "p", "n", "g">>,
    <<"a", "_", "b", ".", "p", "n", "g">>,
    <<"2", "a">>,
    <<"a">> }

\* secret.value of a getSecret call that succeeds
SecretValue == "K1"

\* a request slot no request has used yet
NoRequest ==
  [kind |-> "none", pc |-> "none", originalname |-> <<>>, calls |-> <<>>,
   status |-> 0, secret |-> "none", accountKey |-> "undefined", client |-> FALSE,
   timestamp |-> 0, blobName |-> <<>>, stored |-> FALSE, items |-> {}]

\* slot r takes the next request to arrive: requests are numbered in the
\* order in which their handlers start
Arrives(r) ==
  /\ req[r].kind = "none"
  /\ IF r = 1 THEN TRUE ELSE req[r - 1].kind # "none"

\* res.status(code).send(...): the handler is over
Respond(rec, code) == [rec EXCEPT !.pc = "done", !.status = code]

\* the blob name without its timestamp prefix
BlobNameNoTimestamp(t, safe) == safe

\* the blob name without the '-' between timestamp and name
BlobNameNoSeparator(t, safe) == NumberToString(t) \o safe

\* Date.now() + '-' + safeFilename
BlobName(t, safe) == NumberToString(t) \o <<"-">> \o safe

\* the code after `await getStorageCredentials()` in each handler, up to its
\* next await: the blob-store call the handler issues
AfterCredentials(rec) ==
  IF rec.kind = "upload"
  THEN [rec EXCEPT !.pc = "createIfNotExists", !.calls = Append(@, "createIfNotExists")]
  ELSE [rec EXCEPT !.pc = "listBlobsFlat", !.calls = Append(@, "listBlobsFlat")]

\* new StorageSharedKeyCredential(name, accountKey); new BlobServiceClient(...)
WithClient(rec, key) == [rec EXCEPT !.accountKey = key, !.client = TRUE]

\* the two tests of getStorageCredentials in the opposite order
CredentialSourceVaultFirst(envKey, vaultUrl) ==
  IF Truthy(vaultUrl) THEN "vault"
  ELSE IF Truthy(envKey) THEN "env"
  ELSE "none"

\* the branch getStorageCredentials takes
CredentialSource(envKey, vaultUrl) ==
  IF Truthy(envKey) THEN "env"
  ELSE IF Truthy(vaultUrl) THEN "vault"
  ELSE "none"

\* getStorageCredentials() up to its first await, called from a handler's try
CallCredentials(rec0) ==
  LET rec == [rec0 EXCEPT !.calls = Append(@, "getStorageCredentials")]
      src == CredentialSource(storageAccountKey, keyVaultUrl)
  IN  CASE src = "env"   -> AfterCredentials(WithClient(rec, storageAccountKey))
        [] src = "vault" -> [rec EXCEPT !.pc = "getSecret", !.secret = "pending",
                                        !.calls = Append(@, "getSecret")]
        [] OTHER         -> Respond(rec, 500)

\* getSecret rejected, and the catch carries on with an empty key
SecretFailureFallsBack(rec) == AfterCredentials(WithClient(rec, ""))

\* getSecret rejected: the catch rethrows, the handler's catch answers 500
SecretFailure(rec) == Respond(rec, 500)

\* uploadData(buffer) under a name: the object is created or replaced
PutBlob(store, name, data) ==
  {b \in store : b.name # name} \cup {[name |-> name, data |-> data]}

\* the names listBlobsFlat() yields
ListNames(store) == {b.name : b \in store}

----------------------------------------------------------------------------
(* Refresh cycles *)

Cycles == {"c1", "c2"}

\* the loop variable before the iterator has yielded anything
NoSetting == Setting(<<>>, "")

\* an activation that is not running: pc is "idle" before the first one, and
\* afterwards how the last one ended ("ok", "failed")
Ended(how) == [pc |-> how, flags |-> EmptyObject, setting |-> NoSetting]

\* the body of the inner try for one setting: the local map afterwards
ProcessSetting(flags, setting) ==
  LET parsed == JSONParse(setting.value)
      name == FlagName(setting.key)
  IN  IF ~parsed.ok THEN flags                   \* JSON.parse threw
      ELSE IF parsed.kind = "null" THEN flags    \* parsed.enabled threw
      ELSE SetProp(flags, name,
                   IF Truthy(GetProp(parsed.props, "enabled")) THEN "true" ELSE "false")

\* the loop body storing each flag in the snapshot as well
StoreFlagInSnapshot(local, snapshot, setting) ==
  [local |-> ProcessSetting(local, setting),
   snapshot |-> ProcessSetting(snapshot, setting)]

\* where the loop body stores a flag: in the local map, not in the snapshot
StoreFlag(local, snapshot, setting) ==
  [local |-> ProcessSetting(local, setting), snapshot |-> snapshot]

\* the outer catch clearing the snapshot
SnapshotClearedAfterFailure(snapshot) == EmptyObject

\* the snapshot after the outer catch
SnapshotAfterFailure(snapshot) == snapshot

\* the gate testing for true instead of false
GalleryDisabledWhenTrue(flags) == GetProp(flags, "enableGallery") = "true"

\* the gate written as !featureFlags.enableGallery
GalleryDisabledUnlessTrue(flags) == ~Truthy(GetProp(flags, "enableGallery"))

\* featureFlags.enableGallery === false
GalleryDisabled(flags) == GetProp(flags, "enableGallery") = "false"

----------------------------------------------------------------------------
(* Initial states *)

\* an object left in the container by an earlier run of the service
EarlierBlob == [name |-> BlobName(1, <<"a", "_", "b", ".", "p", "n", "g">>), data |-> 0]

SanitizerOff ==
  /\ sIn = <<>> /\ sOut = <<>> /\ sAgain = <<>> /\ sPhase = "off"

ServerInit ==
  /\ storageAccountKey \in {"undefined", "", "K0"}
  /\ keyVaultUrl \in {"undefined", "https://kv.example"}
  /\ featureFlags = EmptyObject
  /\ cyc = [c \in Cycles |-> Ended("idle")]
  /\ req = [r \in Requests |-> NoRequest]
  /\ containerExists \in BOOLEAN
  /\ blobs \in (IF containerExists THEN {{}, {EarlierBlob}} ELSE {{}})
  /\ now = 1
  /\ SanitizerOff

\* the service started without APP_CONFIG_ENDPOINT
Init == ServerInit /\ appConfigClient = "null"

\* the service started with APP_CONFIG_ENDPOINT, the storage key in the
\* environment and the container in place
FlagInit ==
  /\ ServerInit
  /\ appConfigClient = "client"
  /\ storageAccountKey = "K0"
  /\ keyVaultUrl = "undefined"
  /\ containerExists
  /\ blobs = {}

----------------------------------------------------------------------------
(* POST /upload *)

\* no file in the request: 400 before anything else
UploadNoFile(r) ==
  /\ Arrives(r)
  /\ req' = [req EXCEPT ![r] = Respond([NoRequest EXCEPT !.kind = "upload"], 400)]
  /\ UNCHANGED <<storageAccountKey, keyVaultUrl, appConfigClient, featureFlags, cyc,
                 blobs, containerExists, now, sIn, sOut, sAgain, sPhase>>

UploadBegin(r) ==
  /\ Arrives(r)
  /\ \E name \in FileNames :
       req' = [req EXCEPT ![r] =
                 CallCredentials([NoRequest EXCEPT !.kind = "upload", !.originalname = name])]
  /\ UNCHANGED <<storageAccountKey, keyVaultUrl, appConfigClient, featureFlags, cyc,
                 blobs, containerExists, now, sIn, sOut, sAgain, sPhase>>

\* createIfNotExists resolved: the name is sanitized, the blob name is taken
\* from the clock and uploadData is issued
CreateContainerOk(r) ==
  /\ req[r].pc = "createIfNotExists"
  /\ containerExists' = TRUE
  /\ req' = [req EXCEPT ![r] =
               [@ EXCEPT !.timestamp = now,
                         !.blobName = BlobName(now, safeFilename(req[r].originalname)),
                         !.calls = Append(@, "uploadData"),
                         !.pc = "uploadData"]]
  /\ UNCHANGED <<storageAccountKey, keyVaultUrl, appConfigClient, featureFlags, cyc,
                 blobs, now, sIn, sOut, sAgain, sPhase>>

CreateContainerFail(r) ==
  /\ req[r].pc = "createIfNotExists"
  /\ req' = [req EXCEPT ![r] = Respond(@, 500)]
  /\ UNCHANGED <<storageAccountKey, keyVaultUrl, appConfigClient, featureFlags, cyc,
                 blobs, containerExists, now, sIn, sOut, sAgain, sPhase>>

\* uploadData resolved: the object is stored; the response is 200 unless
\* reading public/css/style.css for the response body throws
UploadDataOk(r) ==
  /\ req[r].pc = "uploadData"
  /\ containerExists
  /\ blobs' = PutBlob(blobs, req[r].blobName, r)
  /\ \E code \in {200, 500} :
       req' = [req EXCEPT ![r] = Respond([@ EXCEPT !.stored = TRUE], code)]
  /\ UNCHANGED <<storageAccountKey, keyVaultUrl, appConfigClient, featureFlags, cyc,
                 containerExists, now, sIn, sOut, sAgain, sPhase>>

UploadDataFail(r) ==
  /\ req[r].pc = "uploadData"
  /\ req' = [req EXCEPT ![r] = Respond(@, 500)]
  /\ UNCHANGED <<storageAccountKey, keyVaultUrl, appConfigClient, featureFlags, cyc,
                 blobs, containerExists, now, sIn, sOut, sAgain, sPhase>>

----------------------------------------------------------------------------
(* GET /gallery *)

GalleryBegin(r) ==
  /\ Arrives(r)
  /\ LET rec == [NoRequest EXCEPT !.kind = "gallery"]
     IN  req' = [req EXCEPT ![r] =
                   IF GalleryDisabled(featureFlags) THEN Respond(rec, 404)
                   ELSE CallCredentials(rec)]
  /\ UNCHANGED <<storageAccountKey, keyVaultUrl, appConfigClient, featureFlags, cyc,
                 blobs, containerExists, now, sIn, sOut, sAgain, sPhase>>

\* the listing ran to its end: the page is rendered with every blob
ListOk(r) ==
  /\ req[r].pc = "listBlobsFlat"
  /\ containerExists
  /\ req' = [req EXCEPT ![r] = Respond([@ EXCEPT !.items = ListNames(blobs)], 200)]
  /\ UNCHANGED <<storageAccountKey, keyVaultUrl, appConfigClient, featureFlags, cyc,
                 blobs, containerExists, now, sIn, sOut, sAgain, sPhase>>

ListFail(r) ==
  /\ req[r].pc = "listBlobsFlat"
  /\ req' = [req EXCEPT ![r] = Respond(@, 500)]
  /\ UNCHANGED <<storageAccountKey, keyVaultUrl, appConfigClient, featureFlags, cyc,
                 blobs, containerExists, now, sIn, sOut, sAgain, sPhase>>

----------------------------------------------------------------------------
(* getStorageCredentials after its await *)

GetSecretOk(r) ==
  /\ req[r].pc = "getSecret"
  /\ req' = [req EXCEPT ![r] =
               AfterCredentials(WithClient([@ EXCEPT !.secret = "value"], SecretValue))]
  /\ UNCHANGED <<storageAccountKey, keyVaultUrl, appConfigClient, featureFlags, cyc,
                 blobs, containerExists, now, sIn, sOut, sAgain, sPhase>>

GetSecretFail(r) ==
  /\ req[r].pc = "getSecret"
  /\ req' = [req EXCEPT ![r] = SecretFailure([@ EXCEPT !.secret = "rejected"])]
  /\ UNCHANGED <<storageAccountKey, keyVaultUrl, appConfigClient, featureFlags, cyc,
                 blobs, containerExists, now, sIn, sOut, sAgain, sPhase>>

----------------------------------------------------------------------------
(* The clock *)

Tick ==
  /\ \E t \in ClockValues : t > now /\ now' = t
  /\ UNCHANGED <<storageAccountKey, keyVaultUrl, appConfigClient, featureFlags, cyc,
                 req, blobs, containerExists, sIn, sOut, sAgain, sPhase>>

----------------------------------------------------------------------------
(* refreshFeatureFlags *)

\* no client: the function returns at once
RefreshSkip ==
  /\ appConfigClient = "null"
  /\ UNCHANGED vars

\* the call at start-up or a firing of the interval timer: a fresh local map,
\* the listing is requested
RefreshStart(c) ==
  /\ appConfigClient # "null"
  /\ cyc[c].pc # "iter"
  /\ cyc' = [cyc EXCEPT ![c] = [Ended("iter") EXCEPT !.flags = EmptyObject]]
  /\ UNCHANGED <<storageAccountKey, keyVaultUrl, appConfigClient, featureFlags,
                 req, blobs, containerExists, now, sIn, sOut, sAgain, sPhase>>

\* the iterator yields one setting: the body of the for await loop
RefreshEntry(c) ==
  /\ cyc[c].pc = "iter"
  /\ \E setting \in Settings :
       LET out == StoreFlag(cyc[c].flags, featureFlags, setting)
       IN  /\ cyc' = [cyc EXCEPT ![c] = [@ EXCEPT !.flags = out.local,
                                                   !.setting = setting]]
           /\ featureFlags' = out.snapshot
  /\ UNCHANGED <<storageAccountKey, keyVaultUrl, appConfigClient,
                 req, blobs, containerExists, now, sIn, sOut, sAgain, sPhase>>

\* the iterator is exhausted: featureFlags = flags
RefreshCommit(c) ==
  /\ cyc[c].pc = "iter"
  /\ featureFlags' = cyc[c].flags
  /\ cyc' = [cyc EXCEPT ![c] = Ended("ok")]
  /\ UNCHANGED <<storageAccountKey, keyVaultUrl, appConfigClient,
                 req, blobs, containerExists, now, sIn, sOut, sAgain, sPhase>>

\* the listing throws: the outer catch logs and the function returns
RefreshFail(c) ==
  /\ cyc[c].pc = "iter"
  /\ featureFlags' = SnapshotAfterFailure(featureFlags)
  /\ cyc' = [cyc EXCEPT ![c] = Ended("failed")]
  /\ UNCHANGED <<storageAccountKey, keyVaultUrl, appConfigClient,
                 req, blobs, containerExists, now, sIn, sOut, sAgain, sPhase>>

----------------------------------------------------------------------------
(* Specifications *)

Next ==
  \/ \E r \in Requests :
       \/ UploadNoFile(r) \/ UploadBegin(r)
       \/ CreateContainerOk(r) \/ CreateContainerFail(r)
       \/ UploadDataOk(r) \/ UploadDataFail(r)
       \/ GalleryBegin(r) \/ ListOk(r) \/ ListFail(r)
       \/ GetSecretOk(r) \/ GetSecretFail(r)
  \/ Tick
  \/ RefreshSkip

Spec == Init /\ [][Next]_vars

FlagNext ==
  \/ \E c \in Cycles :
       RefreshStart(c) \/ RefreshEntry(c) \/ RefreshCommit(c) \/ RefreshFail(c)
  \/ \E r \in Requests : GalleryBegin(r) \/ ListOk(r) \/ ListFail(r)

FlagSpec == FlagInit /\ [][FlagNext]_vars

----------------------------------------------------------------------------
(* The sanitizer on its own: one name is sanitized, then the result again *)

MyPhoto == <<"M","y"," ","P","h","o","t","o"," ","(","1",")",".","P","N","G">>

HelloWorld == <<"h","é","l","l","o"," ","w","o","r","l","d",".","j","p","g">>

\* the names of at most MaxLen characters over Alphabet, and the two examples
SanitizerInputs ==
  UNION {[1..n -> Alphabet] : n \in 0..MaxLen} \cup {MyPhoto, HelloWorld}

SanInit ==
  /\ storageAccountKey = "undefined"
  /\ keyVaultUrl = "undefined"
  /\ appConfigClient = "null"
  /\ featureFlags = EmptyObject
  /\ cyc = [c \in Cycles |-> Ended("idle")]
  /\ req = [r \in Requests |-> NoRequest]
  /\ containerExists = FALSE
  /\ blobs = {}
  /\ now = 1
  /\ sIn \in SanitizerInputs
  /\ sOut = <<>>
  /\ sAgain = <<>>
  /\ sPhase = "in"

Sanitize ==
  /\ sPhase = "in"
  /\ sOut' = safeFilename(sIn)
  /\ sPhase' = "out"
  /\ UNCHANGED <<storageAccountKey, keyVaultUrl, appConfigClient, featureFlags, cyc,
                 req, blobs, containerExists, now, sIn, sAgain>>

SanitizeAgain ==
  /\ sPhase = "out"
  /\ sAgain' = safeFilename(sOut)
  /\ sPhase' = "again"
  /\ UNCHANGED <<storageAccountKey, keyVaultUrl, appConfigClient, featureFlags, cyc,
                 req, blobs, containerExists, now, sIn, sOut>>

SanNext == Sanitize \/ SanitizeAgain

SanSpec == SanInit /\ [][SanNext]_vars

----------------------------------------------------------------------------
(* Properties of credential resolution *)

Called(rec, what) == \E i \in 1..Len(rec.calls) : rec.calls[i] = what

BlobStoreCalls == {"createIfNotExists", "uploadData", "listBlobsFlat"}

\* C1: when STORAGE_ACCOUNT_KEY is configured, no request ever calls
\* getSecret, and every request that resolves the credential gets a client
\* built from the configured value, whether or not KEY_VAULT_URL is set.
OverrideNeverCallsGetSecret ==
  Truthy(storageAccountKey) =>
    \A r \in Requests :
      /\ ~Called(req[r], "getSecret")
      /\ req[r].secret = "none"
      /\ Called(req[r], "getStorageCredentials") =>
           req[r].client /\ req[r].accountKey = storageAccountKey

\* an upload and a gallery request have both resolved the credential with the
\* override and the secret-store endpoint configured together
OverrideWithVaultResolved ==
  /\ Truthy(storageAccountKey)
  /\ Truthy(keyVaultUrl)
  /\ \E u, g \in Requests :
       /\ req[u].kind = "upload" /\ req[u].stored
       /\ req[g].kind = "gallery" /\ req[g].status = 200

\* C2: without an override and with a secret-store endpoint, a rejected
\* getSecret ends the request in a 500 response: no credential value, no
\* storage client, and no call to the blob store.
SecretFailureEndsRequest ==
  \A r \in Requests :
    req[r].secret = "rejected" =>
      /\ ~Truthy(storageAccountKey) /\ Truthy(keyVaultUrl)
      /\ req[r].pc = "done" /\ req[r].status = 500
      /\ req[r].accountKey = "undefined" /\ ~req[r].client
      /\ \A i \in 1..Len(req[r].calls) : req[r].calls[i] \notin BlobStoreCalls
      /\ ~req[r].stored /\ req[r].items = {}

\* getSecret was rejected for an upload and for a gallery request
SecretRejectedForBoth ==
  \E u, g \in Requests :
    /\ req[u].kind = "upload" /\ req[u].secret = "rejected"
    /\ req[g].kind = "gallery" /\ req[g].secret = "rejected"

----------------------------------------------------------------------------
(* Properties of the sanitizer *)

\* C7 as stated: "My Photo (1).PNG" becomes "My_Photo_1.PNG" and
\* "héllo world.jpg" becomes "h_llo_world.jpg".
ExamplesAsStated ==
  sPhase # "in" =>
    /\ sIn = MyPhoto =>
         sOut = <<"M","y","_","P","h","o","t","o","_","1",".","P","N","G">>
    /\ sIn = HelloWorld =>
         sOut = <<"h","_","l","l","o","_","w","o","r","l","d",".","j","p","g">>

\* C7, amended: "My Photo (1).PNG" becomes "My_Photo_1_.PNG" (the ')' before
\* the '.' leaves an underscore that no step removes) and "héllo world.jpg"
\* becomes "h_llo_world.jpg".
ExamplesAsComputed ==
  sPhase # "in" =>
    /\ sIn = MyPhoto =>
         sOut = <<"M","y","_","P","h","o","t","o","_","1","_",".","P","N","G">>
    /\ sIn = HelloWorld =>
         sOut = <<"h","_","l","l","o","_","w","o","r","l","d",".","j","p","g">>

\* "My Photo (1).PNG" has been sanitized
MyPhotoSanitized == sPhase = "out" /\ sIn = MyPhoto

\* C8: sanitizing the output again changes nothing; the output is empty
\* exactly when the input has no character of [A-Za-z0-9.-], and otherwise it
\* has no leading, trailing or consecutive underscore.
SanitizerIdempotentAndTrimmed ==
  /\ sPhase = "again" => sAgain = sOut
  /\ sPhase # "in" =>
       /\ (sOut = <<>>) <=> (\A i \in 1..Len(sIn) : sIn[i] \notin AllowedChars)
       /\ sOut # <<>> =>
            /\ sOut[1] # "_"
            /\ sOut[Len(sOut)] # "_"
            /\ \A i \in 1..(Len(sOut) - 1) : ~(sOut[i] = "_" /\ sOut[i + 1] = "_")

\* a name with underscores, whitespace and other characters around allowed
\* ones has been sanitized twice
MixedNameSanitizedTwice ==
  /\ sPhase = "again"
  /\ sIn = <<"_", "a", " ", "(">>
  /\ sAgain = <<"a">>

----------------------------------------------------------------------------
(* Properties of the flag snapshot *)

\* cycle c ends successfully in this step
Commits(c) == cyc[c].pc = "iter" /\ cyc'[c].pc = "ok"

\* cycle c processes a setting in this step
ProcessesSetting(c) ==
  cyc[c].pc = "iter" /\ cyc'[c].pc = "iter" /\ cyc'[c] # cyc[c]

\* C3: the snapshot starts as the empty mapping and changes only in the step
\* in which a refresh cycle ends successfully, to the whole mapping that this
\* one cycle built; no step of a cycle still iterating, and no step of
\* another cycle, writes part of a mapping into it.
SnapshotReplacedWholesale ==
  [][featureFlags' # featureFlags =>
       \E c \in Cycles : Commits(c) /\ featureFlags' = cyc[c].flags]_vars

\* a gallery request is being handled while both cycles are suspended in
\* their loops with different partial mappings, neither of them the snapshot
\* an earlier cycle installed
HandlerRunsDuringOverlap ==
  /\ \E r \in Requests : req[r].pc = "listBlobsFlat"
  /\ featureFlags # EmptyObject
  /\ \A c \in Cycles :
       cyc[c].pc = "iter" /\ cyc[c].flags # EmptyObject /\ cyc[c].flags # featureFlags
  /\ \E c, d \in Cycles : cyc[c].flags # cyc[d].flags

\* C4: a refresh cycle that fails leaves the snapshot as it was: none of its
\* steps (start, settings processed before the listing threw, the catch)
\* changes featureFlags, so a populated snapshot is not emptied; the function
\* returns normally and the next activation can start.
FailedRefreshKeepsSnapshot ==
  /\ [][\A c \in Cycles :
          (cyc'[c] # cyc[c] /\ cyc'[c].pc # "ok") => featureFlags' = featureFlags]_vars
  /\ [](\A c \in Cycles : cyc[c].pc = "failed" => ENABLED RefreshStart(c))

\* a cycle has failed under a populated snapshot while the other cycle,
\* started later or earlier, is iterating
FailedWhilePopulated ==
  /\ featureFlags # EmptyObject
  /\ \E c, d \in Cycles :
       /\ cyc[c].pc = "failed"
       /\ cyc[d].pc = "iter" /\ cyc[d].flags # EmptyObject

\* a setting whose value is JSON carrying an enabled field
WellFormed(setting) ==
  setting.value \in {"{\"enabled\":true}", "{\"enabled\":false}"}

\* C5: in a refresh cycle a malformed setting (value not JSON, or no enabled
\* field) adds nothing to the mapping being built, and a well-formed one is
\* entered with its enabled value.
MalformedSettingsSkipped ==
  [][\A c \in Cycles :
       ProcessesSetting(c) =>
         LET setting == cyc'[c].setting
         IN  IF WellFormed(setting)
             THEN cyc'[c].flags =
                    SetProp(cyc[c].flags, FlagName(setting.key),
                            IF setting.value = "{\"enabled\":true}" THEN "true" ELSE "false")
             ELSE cyc'[c].flags = cyc[c].flags]_vars

\* C6: a GET /gallery that arrives while the snapshot maps enableGallery to
\* false is answered 404 at once, with no credential resolution and no call
\* to the blob store, whatever refreshes came before.
DisabledGalleryTouchesNothing ==
  /\ [][\A r \in Requests :
          ( /\ req[r].kind = "none" /\ req'[r].kind = "gallery"
            /\ "enableGallery" \in DOMAIN featureFlags
            /\ featureFlags["enableGallery"] = "false" )
          => req'[r] = [NoRequest EXCEPT !.kind = "gallery", !.pc = "done", !.status = 404]]_vars
  /\ [](\A r \in Requests :
          req[r].status = 404 => req[r].pc = "done" /\ req[r].calls = <<>> /\ ~req[r].client)

\* one gallery request was listed and a later one was refused, the snapshot
\* having been replaced in between
GalleryRefusedAfterRefresh ==
  /\ req[1].kind = "gallery" /\ req[1].status = 200
  /\ req[2].kind = "gallery" /\ req[2].status = 404
  /\ GetProp(featureFlags, "enableGallery") = "false"

----------------------------------------------------------------------------
(* Properties of uploads *)

SpacedName == <<"a", " ", "b", ".", "p", "n", "g">>

\* the pattern ^\d+-a_b\.png$
MatchesDigitsThenName(name) ==
  LET suffix == <<"-", "a", "_", "b", ".", "p", "n", "g">>
      n == Len(name) - Len(suffix)
  IN  /\ n >= 1
      /\ \A i \in 1..n : name[i] \in Digit
      /\ SubSeq(name, n + 1, Len(name)) = suffix

\* the upload of slot r, named "a b.png", gets its 200 response in this step
SpacedUploadSucceeds(r) ==
  /\ req[r].kind = "upload" /\ req[r].originalname = SpacedName
  /\ req[r].pc = "uploadData"
  /\ req'[r].status = 200

\* C9: an upload named "a b.png" that succeeds has resolved the credential,
\* then ensured the container, then written once; its key is the timestamp
\* digits followed by "-a_b.png"; if no object had that key, the container
\* gains exactly that one object; and every listing made once the upload has
\* completed includes it.
SpacedUploadStoredAndListed ==
  [][/\ \A r \in Requests :
          SpacedUploadSucceeds(r) =>
            /\ req[r].client
            /\ req'[r].calls \in
                 { <<"getStorageCredentials", "createIfNotExists", "uploadData">>,
                   <<"getStorageCredentials", "getSecret", "createIfNotExists", "uploadData">> }
            /\ MatchesDigitsThenName(req[r].blobName)
            /\ (\A b \in blobs : b.name # req[r].blobName) =>
                 /\ blobs' = blobs \cup {[name |-> req[r].blobName, data |-> r]}
                 /\ Cardinality(blobs') = Cardinality(blobs) + 1
     /\ \A g \in Requests :
          (req[g].pc = "listBlobsFlat" /\ req'[g].status = 200) =>
            \A u \in Requests :
              ( /\ req[u].kind = "upload" /\ req[u].originalname = SpacedName
                /\ req[u].status = 200 )
              => req[u].blobName \in req'[g].items]_vars

\* "a b.png" was uploaded into an empty container and the gallery listed
\* afterwards shows exactly that object
SpacedUploadThenListed ==
  /\ req[1].kind = "upload" /\ req[1].originalname = SpacedName /\ req[1].status = 200
  /\ req[2].kind = "gallery" /\ req[2].status = 200
  /\ req[2].items = {req[1].blobName}
  /\ blobs = {[name |-> req[1].blobName, data |-> 1]}

\* C10: two uploads have the same blob name only if they read the same
\* timestamp and their sanitized names are the same; when their blob names
\* differ, neither has replaced the object the other stored.
KeysCollideOnlyOnSameMsAndName ==
  \A r1, r2 \in Requests :
    ( /\ r1 # r2
      /\ req[r1].kind = "upload" /\ req[r1].blobName # <<>>
      /\ req[r2].kind = "upload" /\ req[r2].blobName # <<>> )
    => /\ req[r1].blobName = req[r2].blobName =>
            /\ req[r1].timestamp = req[r2].timestamp
            /\ safeFilename(req[r1].originalname) = safeFilename(req[r2].originalname)
       /\ (req[r1].blobName # req[r2].blobName /\ req[r1].stored) =>
            /\ \A b \in blobs : b.name = req[r1].blobName => b.data # r2
            /\ \/ [name |-> req[r1].blobName, data |-> r1] \in blobs
               \/ \E r3 \in Requests \ {r1, r2} :
                    req[r3].stored /\ req[r3].blobName = req[r1].blobName

\* two uploads of different names in the same millisecond are both stored,
\* and so are two uploads of one sanitized name in different milliseconds
DistinctKeysBothStored ==
  /\ req[1].stored /\ req[2].stored
  /\ req[1].blobName # req[2].blobName
  /\ \/ req[1].timestamp = req[2].timestamp
     \/ safeFilename(req[1].originalname) = safeFilename(req[2].originalname)
  /\ Cardinality({b \in blobs : b.data \in {1, 2}}) = 2

----------------------------------------------------------------------------
(* Properties of flag names and of the default of the gate *)

\* everything in the key after ".appconfig.featureflag/"
NameAfterPrefix(key) == SubSeq(key, 3, Len(key))

\* C11: a well-formed setting is entered in the mapping under the whole of
\* its key after the namespace separator, also when that name contains '/',
\* with its enabled value, and nothing else in the mapping changes.
FlagStoredUnderWholeName ==
  [][\A c \in Cycles :
       (ProcessesSetting(c) /\ WellFormed(cyc'[c].setting)) =>
         LET setting == cyc'[c].setting
             enabled == IF setting.value = "{\"enabled\":true}" THEN "true" ELSE "false"
         IN  \E name \in DOMAIN cyc'[c].flags :
               /\ <<name>> = NameAfterPrefix(setting.key)
               /\ cyc'[c].flags = SetProp(cyc[c].flags, name, enabled)]_vars

\* C12: a GET /gallery is refused with 404 only when the snapshot maps
\* enableGallery to exactly false at its arrival; with the key absent or
\* true the handler goes on to resolve the credential and, once it has a
\* client, to list the blobs.
GalleryOpenByDefault ==
  [][\A r \in Requests :
       (req[r].kind = "none" /\ req'[r].kind = "gallery") =>
         IF "enableGallery" \in DOMAIN featureFlags /\ featureFlags["enableGallery"] = "false"
         THEN req'[r].status = 404
         ELSE /\ req'[r].status # 404
              /\ Called(req'[r], "getStorageCredentials")
              /\ req'[r].client => Called(req'[r], "listBlobsFlat")]_vars

\* after a refused request the snapshot was replaced by one without the
\* enableGallery key, and the next request was listed
GalleryListedWithoutFlag ==
  /\ req[1].kind = "gallery" /\ req[1].status = 404
  /\ req[2].kind = "gallery" /\ req[2].status = 200
  /\ featureFlags # EmptyObject
  /\ "enableGallery" \notin DOMAIN featureFlags

====
